---- MODULE Spec2Model ----
(***************************************************************************)
(* Attribution & idempotent action engine of pracxcel-tool.                *)
(*                                                                         *)
(*   operations/tasks.py   the four periodic generators                    *)
(*   operations/models.py  Task, ReviewRequest (unique idempotency_key)    *)
(*   core/services.py      create_attribution, override_attribution        *)
(*   core/models.py        Attribution (one-to-one with Patient)           *)
(*                                                                         *)
(* Time is counted in whole hours.  Celery tasks run in autocommit mode,   *)
(* so every ORM call of a generator is one atomic step of the store and    *)
(* steps of concurrent runs interleave freely.                             *)
(***************************************************************************)
EXTENDS Integers, Sequences, FiniteSets, TLC

VARIABLES now, tasks, reviews, is_processed, run, hist, runsStarted,
          thePatient, callStore, touchStore, tieOrder, attributions, lastOp, proc, calls,
          audit, patientStore, liveCalls

genVars == <<now, tasks, reviews, is_processed, run, hist, runsStarted>>

attrVars == <<thePatient, callStore, touchStore, tieOrder, attributions, lastOp, proc, calls>>

auditVars == <<audit>>

\* the records other jobs write while the generators run: the Patient rows the
\* Cliniko sync has created, and the fields of each CallEvent the Twilio
\* webhook overwrites
syncVars == <<patientStore, liveCalls>>

vars == <<genVars, attrVars, auditVars, syncVars>>

---------------------------------------------------------------------------
(* Bounds of the model *)

\* number of times the clock advances (one hour each)
MaxTicks == 1

\* number of generator runs started in one behaviour
MaxRuns == 2

---------------------------------------------------------------------------
(* Program constants *)

\* timedelta(hours=24): the callback look-back
CallbackWindowHours == 24

\* timedelta(hours=24): the review target, 24 hours after the appointment
ReviewTargetHours == 24

\* duration_seconds__lt=30
MissedCallSeconds == 30

\* review window: target +- timedelta(hours=1)
ReviewToleranceHours == 1

\* timedelta(days=7), in hours
FollowupTargetHours == 168

\* follow-up window: target +- timedelta(hours=12)
FollowupToleranceHours == 12

\* timedelta(days=180), in hours
RecallCutoffHours == 4320

\* hours of one day: cutoff.date()
HoursPerDay == 24

\* hours of one calendar month as strftime("%Y-%m") sees it (months of 30 days)
HoursPerMonth == 720

\* the clock at the start: one hour before a month (and day) boundary
Now0 == 5039

NoneId == 0

---------------------------------------------------------------------------
(* The synchronised records the generators read (Event Store) *)

Generators == {"callback", "review", "treatment", "recall"}

Workers == {1, 2}

\* Clinic rows; Clinic.Meta.ordering = ['name'] is the order of the ids
Clinics == [c \in 1..3 |-> [is_active |-> (c # 3)]]

\* Patient rows; Meta.ordering (last_name, first_name) is the order of the ids;
\* last_appointment_date is a day number
Patients ==
  <<[clinic |-> 1, phone |-> "p1", sms_consent |-> TRUE,  email_consent |-> FALSE,
     last_appointment_date |-> 20],
    [clinic |-> 2, phone |-> "p2", sms_consent |-> FALSE, email_consent |-> TRUE,
     last_appointment_date |-> 29],
    [clinic |-> 1, phone |-> "p3", sms_consent |-> FALSE, email_consent |-> FALSE,
     last_appointment_date |-> 200],
    [clinic |-> 3, phone |-> "p1", sms_consent |-> TRUE,  email_consent |-> TRUE,
     last_appointment_date |-> 20],
    [clinic |-> 2, phone |-> "p5", sms_consent |-> TRUE,  email_consent |-> TRUE,
     last_appointment_date |-> 200],
    [clinic |-> 1, phone |-> "px", sms_consent |-> FALSE, email_consent |-> FALSE,
     last_appointment_date |-> 209]>>

\* the patients the Cliniko sync has created before the first run (the last row
\* of Patients is still to come)
SyncedPatients == 1..5

\* CallEvent rows as the last webhook request for each call_sid (unique) left
\* them: the completion callback of CA3 has not come in, its row holds the
\* status and the duration 0 of the last request
CallEvents ==
  <<[call_sid |-> "CA1", clinic |-> 1, caller_phone |-> "p1", timestamp |-> Now0 - 23,
     status |-> "completed",
     duration_seconds |-> 15, resulted_in_appointment |-> FALSE],
    [call_sid |-> "CA2", clinic |-> 1, caller_phone |-> "px", timestamp |-> Now0 - 2,
     status |-> "completed",
     duration_seconds |-> 5,  resulted_in_appointment |-> FALSE],
    [call_sid |-> "CA3", clinic |-> 2, caller_phone |-> "p2", timestamp |-> Now0 - 1,
     status |-> "in-progress",
     duration_seconds |-> 0,  resulted_in_appointment |-> FALSE],
    [call_sid |-> "CA4", clinic |-> 2, caller_phone |-> "p2", timestamp |-> Now0 - 3,
     status |-> "completed",
     duration_seconds |-> 30, resulted_in_appointment |-> FALSE],
    [call_sid |-> "CA5", clinic |-> 1, caller_phone |-> "p1", timestamp |-> Now0 - 4,
     status |-> "completed",
     duration_seconds |-> 10, resulted_in_appointment |-> TRUE],
    [call_sid |-> "CA6", clinic |-> 3, caller_phone |-> "p1", timestamp |-> Now0 - 5,
     status |-> "no-answer",
     duration_seconds |-> 10, resulted_in_appointment |-> FALSE],
    [call_sid |-> "CA7", clinic |-> 1, caller_phone |-> "p1", timestamp |-> Now0 - 6,
     status |-> "completed",
     duration_seconds |-> 12, resulted_in_appointment |-> FALSE]>>

\* the fields of a CallEvent every webhook request overwrites
LiveFields(c) ==
  [clinic |-> CallEvents[c].clinic, status |-> CallEvents[c].status,
   duration_seconds |-> CallEvents[c].duration_seconds,
   timestamp |-> CallEvents[c].timestamp]

\* is_processed of each call before the first run (CA7 was handled by hand)
InitProcessed == [c \in DOMAIN CallEvents |-> (c = 7)]

\* Appointment rows; cliniko_id is unique per clinic only
Appointments ==
  <<[clinic |-> 1, patient |-> 1, cliniko_id |-> "a1", status |-> "completed",
     scheduled_at |-> Now0 - 24],
    [clinic |-> 2, patient |-> 2, cliniko_id |-> "a1", status |-> "completed",
     scheduled_at |-> Now0 - 23],
    [clinic |-> 2, patient |-> 2, cliniko_id |-> "a3", status |-> "completed",
     scheduled_at |-> Now0 - 22],
    [clinic |-> 1, patient |-> 3, cliniko_id |-> "a4", status |-> "completed",
     scheduled_at |-> Now0 - 24],
    [clinic |-> 1, patient |-> 1, cliniko_id |-> "a5", status |-> "scheduled",
     scheduled_at |-> Now0 - 24],
    [clinic |-> 2, patient |-> 5, cliniko_id |-> "a6", status |-> "completed",
     scheduled_at |-> Now0 - 25],
    [clinic |-> 3, patient |-> 4, cliniko_id |-> "a7", status |-> "completed",
     scheduled_at |-> Now0 - 24],
    [clinic |-> 1, patient |-> 1, cliniko_id |-> "a8", status |-> "completed",
     scheduled_at |-> Now0 - 25]>>

\* TreatmentPlan rows; Meta.ordering = ['-created_at'] is the ids descending
TreatmentPlans ==
  <<[clinic |-> 1, patient |-> 1, status |-> "sent",   sent_at |-> Now0 - 168],
    [clinic |-> 1, patient |-> 3, status |-> "viewed", sent_at |-> Now0 - 168],
    [clinic |-> 2, patient |-> 2, status |-> "sent",   sent_at |-> Now0 - 155],
    [clinic |-> 3, patient |-> 4, status |-> "sent",   sent_at |-> Now0 - 168],
    [clinic |-> 1, patient |-> 1, status |-> "draft",    sent_at |-> Now0 - 168],
    [clinic |-> 1, patient |-> 1, status |-> "accepted", sent_at |-> Now0 - 167],
    [clinic |-> 2, patient |-> 2, status |-> "declined", sent_at |-> Now0 - 169],
    [clinic |-> 2, patient |-> 5, status |-> "expired",  sent_at |-> Now0 - 168],
    [clinic |-> 2, patient |-> 5, status |-> "sent",     sent_at |-> Now0 - 181]>>

---------------------------------------------------------------------------
(* Helpers *)

Min(S) == CHOOSE x \in S : \A y \in S : x <= y

\* cutoff.date(): the day a time falls on
DateOf(t) == t \div HoursPerDay

\* timezone.now().strftime("%Y-%m"): the calendar month a time falls in
MonthOf(t) == t \div HoursPerMonth

\* QuerySet.filter(idempotency_key=key).exists()
Exists(rows, key) == \E i \in 1..Len(rows) : rows[i].idempotency_key = key

\* the mutant of UniqueViolation: the column without unique=True
UniqueViolationDropped(rows, key) == FALSE

\* unique=True on idempotency_key: an INSERT of a key already stored is rejected
UniqueViolation(rows, key) == \E i \in 1..Len(rows) : rows[i].idempotency_key = key

---------------------------------------------------------------------------
(* The trigger query of each generator, evaluated at time t *)

\* Clinic.objects.filter(is_active=True), in Meta.ordering
ActiveClinics == SelectSeq(<<1, 2, 3>>, LAMBDA c : Clinics[c].is_active)

\* missed calls of one clinic from the last 24 hours, not yet processed
MissedCalls(clinic, t) ==
  {c \in DOMAIN CallEvents :
     /\ liveCalls[c].clinic = clinic
     /\ liveCalls[c].timestamp >= t - CallbackWindowHours
     /\ liveCalls[c].duration_seconds < MissedCallSeconds
     /\ ~CallEvents[c].resulted_in_appointment
     /\ ~is_processed[c]}

\* appointments completed about 24 hours ago
ReviewAppointments(t) ==
  {a \in DOMAIN Appointments :
     /\ Appointments[a].status = "completed"
     /\ Clinics[Appointments[a].clinic].is_active
     /\ Appointments[a].scheduled_at >= (t - ReviewTargetHours) - ReviewToleranceHours
     /\ Appointments[a].scheduled_at <= (t - ReviewTargetHours) + ReviewToleranceHours}

\* the mutant of FollowupPlans: the query without the status filter
FollowupPlansAnyStatus(t) ==
  {p \in DOMAIN TreatmentPlans :
     /\ Clinics[TreatmentPlans[p].clinic].is_active
     /\ TreatmentPlans[p].sent_at >= (t - FollowupTargetHours) - FollowupToleranceHours
     /\ TreatmentPlans[p].sent_at <= (t - FollowupTargetHours) + FollowupToleranceHours}

\* treatment plans sent about 7 days ago and still in status sent
FollowupPlans(t) ==
  {p \in DOMAIN TreatmentPlans :
     /\ TreatmentPlans[p].status = "sent"
     /\ Clinics[TreatmentPlans[p].clinic].is_active
     /\ TreatmentPlans[p].sent_at >= (t - FollowupTargetHours) - FollowupToleranceHours
     /\ TreatmentPlans[p].sent_at <= (t - FollowupTargetHours) + FollowupToleranceHours}

\* patients whose last appointment is more than 180 days back
RecallPatients(t) ==
  {p \in DOMAIN patientStore :
     /\ Clinics[Patients[p].clinic].is_active
     /\ Patients[p].last_appointment_date < DateOf(t - RecallCutoffHours)}

\* the rows a generator's query returns at time t (callback: per clinic, see ScanClinic)
Triggers(g, t) ==
  CASE g = "review"    -> ReviewAppointments(t)
    [] g = "treatment" -> FollowupPlans(t)
    [] g = "recall"    -> RecallPatients(t)
    [] OTHER           -> {}

\* the rank of a row in its model's Meta.ordering: the greatest comes first
OrderRank(g, x) ==
  CASE g = "callback"  -> liveCalls[x].timestamp
    [] g = "review"    -> Appointments[x].scheduled_at
    [] g = "treatment" -> x
    [] OTHER           -> 0 - x

\* the rows that may come next in the iteration of a queryset (equal ranks: any)
FirstOf(g, q) == {x \in q : \A y \in q : OrderRank(g, x) >= OrderRank(g, y)}

---------------------------------------------------------------------------
(* The idempotency key of each generator *)

\* the mutant of CallbackKey: the key without the call's sid
CallbackKeyNoSid(c) == <<"callback_call">>

\* f"callback_call_{call.call_sid}"
CallbackKey(c) == <<"callback_call", CallEvents[c].call_sid>>

\* f"review_{appt.cliniko_id}"
ReviewKey(a) == <<"review", Appointments[a].cliniko_id>>

\* the mutant of FollowupKey: a key that differs from run to run
FollowupKeyPerRun(p) == <<"treatment_followup", ToString(p), ToString(runsStarted)>>

\* f"treatment_followup_{plan.id}"
FollowupKey(p) == <<"treatment_followup", ToString(p)>>

\* the mutant of RecallKey: the key without the month
RecallKeyNoMonth(p, t) == <<"recall", ToString(p)>>

\* f"recall_{patient.id}_{month_key}", the month read from the clock at that moment
RecallKey(p, t) == <<"recall", ToString(p), ToString(MonthOf(t))>>

\* the mutant of KeyOf: a key made per run instead of per trigger
KeyOfPerRun(g, x, t) == <<g, ToString(x), ToString(runsStarted)>>

KeyOf(g, x, t) ==
  CASE g = "callback"  -> CallbackKey(x)
    [] g = "review"    -> ReviewKey(x)
    [] g = "treatment" -> FollowupKey(x)
    [] OTHER           -> RecallKey(x, t)

---------------------------------------------------------------------------
(* The action record each generator constructs *)

\* Task.objects.create(... task_type='callback', priority=2 ...)
CallbackTask(clinic, patient, c, key) ==
  [clinic |-> clinic, patient |-> patient, task_type |-> "callback", priority |-> 2,
   source_type |-> "call_event", source_id |-> c, idempotency_key |-> key]

\* Task.objects.create(... task_type='treatment_followup', priority=3 ...)
FollowupTask(p, key) ==
  [clinic |-> TreatmentPlans[p].clinic, patient |-> TreatmentPlans[p].patient,
   task_type |-> "treatment_followup", priority |-> 3,
   source_type |-> "treatment_plan", source_id |-> p, idempotency_key |-> key]

\* Task.objects.create(... task_type='recall', priority=4 ...): no source reference
RecallTask(p, key) ==
  [clinic |-> Patients[p].clinic, patient |-> p, task_type |-> "recall", priority |-> 4,
   source_type |-> "", source_id |-> NoneId, idempotency_key |-> key]

\* ReviewRequest.objects.create(...): channel sms if sms consent, else email
ReviewRow(a, key, t) ==
  [clinic |-> Appointments[a].clinic, patient |-> Appointments[a].patient,
   appointment |-> a,
   channel |-> IF Patients[Appointments[a].patient].sms_consent THEN "sms" ELSE "email",
   scheduled_at |-> t, idempotency_key |-> key]

---------------------------------------------------------------------------
(* The records the Attribution Ranker reads *)

\* timedelta(days=30), in hours
LookbackHours == 720

\* invoice.paid_at of the patient's first paid invoice
PaidAt == Now0 - 10

\* the first qualifying paid invoice of the patient
Invoice == [id |-> 1, total_amount |-> 150, paid_at |-> PaidAt]

\* the clinic of the patient under attribution
PatientClinic == 1

\* CallEvent rows the store may hold when the invoice is paid: calls of the
\* patient inside the window (with and without a campaign), and calls the query
\* must not match (no phone, another phone, another clinic, outside the window)
AttrCalls ==
  <<[clinic |-> 1, caller_phone |-> "p1", timestamp |-> PaidAt - LookbackHours,
     campaign_id |-> "",   campaign_name |-> ""],
    [clinic |-> 1, caller_phone |-> "p1", timestamp |-> PaidAt - LookbackHours,
     campaign_id |-> "C1", campaign_name |-> "Spring"],
    [clinic |-> 1, caller_phone |-> "p1", timestamp |-> PaidAt,
     campaign_id |-> "",   campaign_name |-> ""],
    [clinic |-> 1, caller_phone |-> "p1", timestamp |-> PaidAt,
     campaign_id |-> "C2", campaign_name |-> ""],
    [clinic |-> 1, caller_phone |-> "",   timestamp |-> PaidAt,
     campaign_id |-> "C3", campaign_name |-> "Decoy"],
    [clinic |-> 1, caller_phone |-> "p2", timestamp |-> PaidAt,
     campaign_id |-> "C3", campaign_name |-> "Decoy"],
    [clinic |-> 2, caller_phone |-> "p1", timestamp |-> PaidAt,
     campaign_id |-> "C3", campaign_name |-> "Decoy"],
    [clinic |-> 1, caller_phone |-> "p1", timestamp |-> PaidAt - LookbackHours - 1,
     campaign_id |-> "C3", campaign_name |-> "Decoy"],
    [clinic |-> 1, caller_phone |-> "p1", timestamp |-> PaidAt + 1,
     campaign_id |-> "C3", campaign_name |-> "Decoy"]>>

\* MarketingTouch rows the store may hold: touches of the patient inside the
\* window (paid, organic, without UTM fields), and touches the query must not match
AttrTouches ==
  <<[clinic |-> 1, email |-> "e1", timestamp |-> PaidAt - LookbackHours,
     utm_source |-> "google", utm_medium |-> "ppc",     utm_campaign |-> "Brand"],
    [clinic |-> 1, email |-> "e1", timestamp |-> PaidAt,
     utm_source |-> "meta",   utm_medium |-> "cpc",     utm_campaign |-> ""],
    [clinic |-> 1, email |-> "e1", timestamp |-> PaidAt - 1,
     utm_source |-> "",       utm_medium |-> "paid",    utm_campaign |-> "Promo"],
    [clinic |-> 1, email |-> "e1", timestamp |-> PaidAt - LookbackHours,
     utm_source |-> "bing",   utm_medium |-> "organic", utm_campaign |-> ""],
    [clinic |-> 1, email |-> "e1", timestamp |-> PaidAt,
     utm_source |-> "bing",   utm_medium |-> "organic", utm_campaign |-> "Blog"],
    [clinic |-> 1, email |-> "e1", timestamp |-> PaidAt,
     utm_source |-> "",       utm_medium |-> "",        utm_campaign |-> ""],
    [clinic |-> 1, email |-> "e1", timestamp |-> PaidAt + 1,
     utm_source |-> "google", utm_medium |-> "cpc",     utm_campaign |-> "Decoy"],
    [clinic |-> 1, email |-> "",   timestamp |-> PaidAt,
     utm_source |-> "google", utm_medium |-> "cpc",     utm_campaign |-> "Decoy"],
    [clinic |-> 1, email |-> "e2", timestamp |-> PaidAt,
     utm_source |-> "google", utm_medium |-> "cpc",     utm_campaign |-> "Decoy"],
    [clinic |-> 2, email |-> "e1", timestamp |-> PaidAt,
     utm_source |-> "google", utm_medium |-> "cpc",     utm_campaign |-> "Decoy"],
    [clinic |-> 1, email |-> "e1", timestamp |-> PaidAt - LookbackHours - 1,
     utm_source |-> "google", utm_medium |-> "cpc",     utm_campaign |-> "Decoy"]>>

\* the most rows of each kind the store holds at once
MaxRows == 2

SmallSubsets(S) == {T \in SUBSET S : Cardinality(T) <= MaxRows}

Users == {"ann", "bob"}

Procs == {1, 2}

\* no Attribution row
NoRow == [patient |-> NoneId]

NoOp == [op |-> "none"]

ProcIdle == [pc |-> "idle"]

\* the attribution side at rest: an empty store, nothing evaluated
\* the AuditLog table (pk = index), the outcome of the last call on it, and the
\* number of log_audit calls made
NoAudit == [rows |-> <<>>, op |-> [kind |-> "none"], n |-> 0]

AttrStart ==
  /\ thePatient = [clinic |-> PatientClinic, phone |-> "", email |-> ""]
  /\ callStore = {}
  /\ touchStore = {}
  /\ tieOrder = "asc"
  /\ attributions = <<>>
  /\ lastOp = NoOp
  /\ proc = [q \in Procs |-> ProcIdle]
  /\ calls = [started |-> 0, done |-> 0, conflicts |-> 0, overrides |-> 0]
  /\ audit = NoAudit

---------------------------------------------------------------------------
(* One run of a generator: the position of each worker in it *)

Idle ==
  [pc |-> "idle", gen |-> "none", clinics |-> <<>>, clinic |-> NoneId, queue |-> {},
   cur |-> NoneId, key |-> <<>>, patient |-> NoneId, created |-> 0, from |-> 0]

NoRun == [n |-> 0, created |-> 0, from |-> 0, to |-> 0, prevFrom |-> 0, prevCreated |-> 0]

\* the table a generator's records go to
UsesReviews(g) == g = "review"

\* no generator has run yet
GenStart ==
  /\ tasks = <<>>
  /\ reviews = <<>>
  /\ is_processed = InitProcessed
  /\ patientStore = [p \in SyncedPatients |-> Now0 - HoursPerDay]
  /\ liveCalls = [c \in DOMAIN CallEvents |-> LiveFields(c)]
  /\ run = [w \in Workers |-> Idle]
  /\ hist = [g \in Generators |-> NoRun]
  /\ runsStarted = 0

InitGen ==
  /\ now = Now0
  /\ GenStart
  /\ AttrStart

\* the clock advances by one hour
Tick ==
  /\ now < Now0 + MaxTicks
  /\ now' = now + 1
  /\ UNCHANGED <<tasks, reviews, is_processed, run, hist, runsStarted, attrVars, auditVars, syncVars>>

\* the scheduler invokes a generator: the task reads the clock and evaluates its
\* query (callback: the list of active clinics; its calls are read per clinic)
StartRun(w, g) ==
  /\ run[w].pc = "idle"
  /\ runsStarted < MaxRuns
  /\ runsStarted' = runsStarted + 1
  /\ run' = [run EXCEPT ![w] =
       [Idle EXCEPT !.pc = "loop", !.gen = g, !.from = now,
                    !.clinics = IF g = "callback" THEN ActiveClinics ELSE <<>>,
                    !.queue = Triggers(g, now)]]
  /\ UNCHANGED <<now, tasks, reviews, is_processed, hist, attrVars, auditVars, syncVars>>

\* for clinic in clinics: cutoff = now - 24h; the missed calls of that clinic
ScanClinic(w) ==
  /\ run[w].pc = "loop"
  /\ run[w].gen = "callback"
  /\ run[w].queue = {}
  /\ run[w].clinics # <<>>
  /\ run' = [run EXCEPT ![w].clinic = Head(run[w].clinics),
                        ![w].clinics = Tail(run[w].clinics),
                        ![w].queue = MissedCalls(Head(run[w].clinics), now)]
  /\ UNCHANGED <<now, tasks, reviews, is_processed, hist, runsStarted, attrVars, auditVars, syncVars>>

\* the mutant of HasConsent: the generator without the consent guard
HasConsentAlways(a) == TRUE

\* the consent guard of the review generator (on the patient read with the query)
HasConsent(a) ==
  Patients[Appointments[a].patient].sms_consent
    \/ Patients[Appointments[a].patient].email_consent

\* the next trigger of the loop: its key, and the check that a record with the
\* key exists (continue), before anything is created
CheckExists(w) ==
  /\ run[w].pc = "loop"
  /\ run[w].queue # {}
  /\ \E x \in FirstOf(run[w].gen, run[w].queue) :
       LET g    == run[w].gen
           key  == KeyOf(g, x, now)
           rows == IF UsesReviews(g) THEN reviews ELSE tasks
           skip == (g = "review" /\ ~HasConsent(x)) \/ Exists(rows, key)
       IN run' = [run EXCEPT ![w].queue = run[w].queue \ {x},
                             ![w].cur = IF skip THEN NoneId ELSE x,
                             ![w].key = IF skip THEN <<>> ELSE key,
                             ![w].pc = IF skip THEN "loop"
                                       ELSE IF g = "callback" THEN "patient"
                                       ELSE "create"]
  /\ UNCHANGED <<now, tasks, reviews, is_processed, hist, runsStarted, attrVars, auditVars, syncVars>>

\* the mutant of MatchingPatients: the patients as they were before the first run
MatchingPatientsStale(clinic, c) ==
  {p \in SyncedPatients :
     Patients[p].clinic = clinic /\ Patients[p].phone = CallEvents[c].caller_phone}

\* Patient.objects.filter(clinic=clinic, phone=call.caller_phone).first()
MatchingPatients(clinic, c) ==
  {p \in DOMAIN patientStore :
     Patients[p].clinic = clinic /\ Patients[p].phone = CallEvents[c].caller_phone}

\* callback: resolve the patient by the caller's phone; none: the call is skipped
FindPatient(w) ==
  /\ run[w].pc = "patient"
  /\ LET m == MatchingPatients(run[w].clinic, run[w].cur)
     IN run' = [run EXCEPT ![w].patient = IF m = {} THEN NoneId ELSE Min(m),
                           ![w].cur = IF m = {} THEN NoneId ELSE run[w].cur,
                           ![w].key = IF m = {} THEN <<>> ELSE run[w].key,
                           ![w].pc = IF m = {} THEN "loop" ELSE "create"]
  /\ UNCHANGED <<now, tasks, reviews, is_processed, hist, runsStarted, attrVars, auditVars, syncVars>>

\* the record the run is about to create
NewRow(w) ==
  LET r == run[w]
  IN CASE r.gen = "callback"  -> CallbackTask(r.clinic, r.patient, r.cur, r.key)
       [] r.gen = "review"    -> ReviewRow(r.cur, r.key, now)
       [] r.gen = "treatment" -> FollowupTask(r.cur, r.key)
       [] OTHER               -> RecallTask(r.cur, r.key)

\* objects.create(...): the INSERT is accepted
CreateRecord(w) ==
  /\ run[w].pc = "create"
  /\ IF UsesReviews(run[w].gen)
       THEN /\ ~UniqueViolation(reviews, run[w].key)
            /\ reviews' = Append(reviews, NewRow(w))
            /\ tasks' = tasks
       ELSE /\ ~UniqueViolation(tasks, run[w].key)
            /\ tasks' = Append(tasks, NewRow(w))
            /\ reviews' = reviews
  /\ run' = [run EXCEPT
       ![w].pc = IF run[w].gen = "callback" THEN "mark" ELSE "loop",
       ![w].created = IF run[w].gen = "callback" THEN @ ELSE @ + 1,
       ![w].cur = IF run[w].gen = "callback" THEN @ ELSE NoneId,
       ![w].key = IF run[w].gen = "callback" THEN @ ELSE <<>>]
  /\ UNCHANGED <<now, is_processed, hist, runsStarted, attrVars, auditVars, syncVars>>

\* objects.create(...): the INSERT is rejected (IntegrityError); nothing in the
\* generator catches it, so it leaves the loop and the task fails
CreateConflict(w) ==
  /\ run[w].pc = "create"
  /\ UniqueViolation(IF UsesReviews(run[w].gen) THEN reviews ELSE tasks, run[w].key)
  /\ run' = [run EXCEPT ![w].pc = "crashed"]
  /\ UNCHANGED <<now, tasks, reviews, is_processed, hist, runsStarted, attrVars, auditVars, syncVars>>

\* call.is_processed = True; call.save(...); tasks_created += 1
MarkProcessed(w) ==
  /\ run[w].pc = "mark"
  /\ is_processed' = [is_processed EXCEPT ![run[w].cur] = TRUE]
  /\ run' = [run EXCEPT ![w].pc = "loop", ![w].created = @ + 1,
                        ![w].cur = NoneId, ![w].key = <<>>, ![w].patient = NoneId]
  /\ UNCHANGED <<now, tasks, reviews, hist, runsStarted, attrVars, auditVars, syncVars>>

\* the loop is over: return the created-count
Finish(w) ==
  /\ run[w].pc = "loop"
  /\ run[w].queue = {}
  /\ run[w].clinics = <<>>
  /\ hist' = [hist EXCEPT ![run[w].gen] =
       [n |-> @.n + 1, created |-> run[w].created, from |-> run[w].from,
        to |-> now, prevFrom |-> @.from, prevCreated |-> @.created]]
  /\ run' = [run EXCEPT ![w] = Idle]
  /\ UNCHANGED <<now, tasks, reviews, is_processed, runsStarted, attrVars, auditVars, syncVars>>

\* the failed task is over; the worker is free for the next invocation
Recover(w) ==
  /\ run[w].pc = "crashed"
  /\ run' = [run EXCEPT ![w] = Idle]
  /\ UNCHANGED <<now, tasks, reviews, is_processed, hist, runsStarted, attrVars, auditVars, syncVars>>

\* concurrent runs: overlapping schedule intervals, a manual re-trigger
Next ==
  \/ Tick
  \/ \E w \in Workers :
       \/ \E g \in Generators : StartRun(w, g)
       \/ ScanClinic(w)
       \/ CheckExists(w)
       \/ FindPatient(w)
       \/ CreateRecord(w)
       \/ CreateConflict(w)
       \/ MarkProcessed(w)
       \/ Finish(w)
       \/ Recover(w)

Spec == InitGen /\ [][Next]_vars

\* one run at a time: a run starts only when no other run is under way
NextSeq ==
  \/ Tick
  \/ \E g \in Generators : StartRun(1, g)
  \/ ScanClinic(1)
  \/ CheckExists(1)
  \/ FindPatient(1)
  \/ CreateRecord(1)
  \/ MarkProcessed(1)
  \/ Finish(1)

SpecSeq == InitGen /\ [][NextSeq]_vars

---------------------------------------------------------------------------
(* create_attribution: the candidates, the precedence, the evidence *)

PatientId == 1

\* the mutant of OrElse: the value without the fallback
OrElseKeep(x, d) == x

\* Python's `x or d` on a string
OrElse(x, d) == IF x = "" THEN d ELSE x

\* f with key k set to v (dict assignment)
Put(f, k, v) == [x \in DOMAIN f \cup {k} |-> IF x = k THEN v ELSE f[x]]

\* the mutant of LookbackDate: the window counted back from the clock
LookbackFromNow(inv) == now - LookbackHours

\* lookback_date = invoice.paid_at - timedelta(days=30)
LookbackDate(inv) == inv.paid_at - LookbackHours

\* order_by('-timestamp'): a comes before b; rows of equal timestamp come in
\* the order the store keeps them in, the same for every query on unchanged rows
ComesBefore(tab, a, b) ==
  \/ tab[a].timestamp > tab[b].timestamp
  \/ /\ tab[a].timestamp = tab[b].timestamp
     /\ IF tieOrder = "asc" THEN a < b ELSE a > b

\* the first row of a non-empty S in that order
FirstIn(tab, S) == CHOOSE a \in S : \A b \in S \ {a} : ComesBefore(tab, a, b)

\* the mutant of CallCandidates: the query without the `if patient.phone` guard
CallCandidatesNoGuard(p, inv) ==
  {c \in callStore :
     /\ AttrCalls[c].clinic = p.clinic
     /\ AttrCalls[c].caller_phone = p.phone
     /\ AttrCalls[c].timestamp >= LookbackDate(inv)
     /\ AttrCalls[c].timestamp <= inv.paid_at}

\* candidate set A: the calls of the patient's clinic and phone inside the window
CallCandidates(p, inv) ==
  IF p.phone # ""
    THEN {c \in callStore :
            /\ AttrCalls[c].clinic = p.clinic
            /\ AttrCalls[c].caller_phone = p.phone
            /\ AttrCalls[c].timestamp >= LookbackDate(inv)
            /\ AttrCalls[c].timestamp <= inv.paid_at}
    ELSE {}

\* the mutant of TouchCandidates: the query without the clinic filter
TouchCandidatesAnyClinic(p, inv) ==
  IF p.email # ""
    THEN {t \in touchStore :
            /\ AttrTouches[t].email = p.email
            /\ AttrTouches[t].timestamp >= LookbackDate(inv)
            /\ AttrTouches[t].timestamp <= inv.paid_at}
    ELSE {}

\* candidate set B: the touches of the patient's clinic and email inside the window
TouchCandidates(p, inv) ==
  IF p.email # ""
    THEN {t \in touchStore :
            /\ AttrTouches[t].clinic = p.clinic
            /\ AttrTouches[t].email = p.email
            /\ AttrTouches[t].timestamp >= LookbackDate(inv)
            /\ AttrTouches[t].timestamp <= inv.paid_at}
    ELSE {}

\* the mutant of PaidCalls: the campaign's name tested instead of its id
PaidCallsByName(A) == {c \in A : AttrCalls[c].campaign_name # ""}

\* if call.campaign_id
PaidCalls(A) == {c \in A : AttrCalls[c].campaign_id # ""}

\* the mutant of PaidMediums: only the medium the comment names
PaidMediumsCpcOnly == {"cpc"}

\* touch.utm_medium in ['cpc', 'ppc', 'paid']
PaidMediums == {"cpc", "ppc", "paid"}

PaidTouches(B) == {t \in B : AttrTouches[t].utm_medium \in PaidMediums}

\* the decision of the precedence rules, first match wins; reason "" stands for
\* no attribution_reason (the unknown branch sets none)
Decision(p, inv) ==
  LET A == CallCandidates(p, inv)
      B == TouchCandidates(p, inv)
  IN IF PaidCalls(A) # {}
       THEN LET c == FirstIn(AttrCalls, PaidCalls(A))
            IN [attribution_type |-> "call", content_type |-> "callevent", object_id |-> c,
                campaign_name |-> AttrCalls[c].campaign_name,
                campaign_source |-> "phone", campaign_medium |-> "call",
                reason |-> "Matched paid campaign call"]
     ELSE IF PaidTouches(B) # {}
       THEN LET t == FirstIn(AttrTouches, PaidTouches(B))
            IN [attribution_type |-> "marketing_touch", content_type |-> "marketingtouch",
                object_id |-> t,
                campaign_name |-> AttrTouches[t].utm_campaign,
                campaign_source |-> AttrTouches[t].utm_source,
                campaign_medium |-> AttrTouches[t].utm_medium,
                reason |-> "Matched paid marketing touch"]
     ELSE IF A # {}
       THEN LET c == FirstIn(AttrCalls, A)
            IN [attribution_type |-> "call", content_type |-> "callevent", object_id |-> c,
                campaign_name |-> "",
                campaign_source |-> "organic", campaign_medium |-> "call",
                reason |-> "Matched organic call"]
     ELSE IF B # {}
       THEN LET t == FirstIn(AttrTouches, B)
            IN [attribution_type |-> "marketing_touch", content_type |-> "marketingtouch",
                object_id |-> t,
                campaign_name |-> "",
                campaign_source |-> OrElse(AttrTouches[t].utm_source, "organic"),
                campaign_medium |-> OrElse(AttrTouches[t].utm_medium, "web"),
                reason |-> "Matched organic marketing touch"]
     ELSE [attribution_type |-> "unknown", content_type |-> "none", object_id |-> NoneId,
           campaign_name |-> "", campaign_source |-> "", campaign_medium |-> "",
           reason |-> ""]

\* the evidence dict built for an evaluation at time t
Evidence(p, inv, t) ==
  LET keys == {"invoice_id", "invoice_amount", "paid_at", "lookback_start",
               "evaluated_at", "marketing_touches_found"}
              \cup (IF p.phone # "" THEN {"call_events_found"} ELSE {})
              \cup (IF Decision(p, inv).reason # "" THEN {"attribution_reason"} ELSE {})
  IN [k \in keys |->
       CASE k = "invoice_id"              -> ToString(inv.id)
         [] k = "invoice_amount"          -> ToString(inv.total_amount)
         [] k = "paid_at"                 -> ToString(inv.paid_at)
         [] k = "lookback_start"          -> ToString(LookbackDate(inv))
         [] k = "evaluated_at"            -> ToString(t)
         [] k = "call_events_found"       -> ToString(Cardinality(CallCandidates(p, inv)))
         [] k = "marketing_touches_found" -> ToString(Cardinality(TouchCandidates(p, inv)))
         [] OTHER                         -> Decision(p, inv).reason]

\* the defaults handed to update_or_create
Defaults(p, inv, t) ==
  LET d == Decision(p, inv)
  IN [clinic |-> p.clinic, attribution_type |-> d.attribution_type,
      content_type |-> d.content_type, object_id |-> d.object_id,
      campaign_name |-> d.campaign_name, campaign_source |-> d.campaign_source,
      campaign_medium |-> d.campaign_medium, evidence_json |-> Evidence(p, inv, t),
      first_invoice_amount |-> inv.total_amount,
      first_invoice_date |-> DateOf(inv.paid_at)]

\* the rows of a patient
RowsOf(rows, pid) == {i \in 1..Len(rows) : rows[i].patient = pid}

\* the row get() returns (NoRow: DoesNotExist)
GetRow(rows, pid) == IF RowsOf(rows, pid) = {} THEN NoRow ELSE rows[Min(RowsOf(rows, pid))]

\* create(patient=..., **defaults): the fields left out take the model's defaults
CreatedRow(pid, d) ==
  [patient |-> pid, clinic |-> d.clinic, attribution_type |-> d.attribution_type,
   status |-> "auto", content_type |-> d.content_type, object_id |-> d.object_id,
   campaign_name |-> d.campaign_name, campaign_source |-> d.campaign_source,
   campaign_medium |-> d.campaign_medium, evidence_json |-> d.evidence_json,
   first_invoice_amount |-> d.first_invoice_amount,
   first_invoice_date |-> d.first_invoice_date,
   overridden_by |-> "", override_reason |-> "", overridden_at |-> NoneId]

\* setattr(obj, k, v) for the defaults; obj.save(): the other fields stay
UpdatedRow(row, d) ==
  [row EXCEPT !.clinic = d.clinic, !.attribution_type = d.attribution_type,
              !.content_type = d.content_type, !.object_id = d.object_id,
              !.campaign_name = d.campaign_name, !.campaign_source = d.campaign_source,
              !.campaign_medium = d.campaign_medium, !.evidence_json = d.evidence_json,
              !.first_invoice_amount = d.first_invoice_amount,
              !.first_invoice_date = d.first_invoice_date]

\* Attribution.objects.update_or_create(patient=patient, defaults=...), run alone
UpdateOrCreate(rows, pid, d) ==
  IF RowsOf(rows, pid) = {}
    THEN Append(rows, CreatedRow(pid, d))
    ELSE [rows EXCEPT ![Min(RowsOf(rows, pid))] = UpdatedRow(@, d)]

\* new_source = None
NoSource == [kind |-> "none", id |-> NoneId]

\* EvaluateAttribution(patient, invoice), run alone
EvaluateAttribution ==
  /\ attributions' = UpdateOrCreate(attributions, PatientId, Defaults(thePatient, Invoice, now))
  /\ lastOp' = [op |-> "evaluate", before |-> GetRow(attributions, PatientId), at |-> now,
                user |-> "", source |-> NoSource, reason |-> ""]
  /\ UNCHANGED <<genVars, syncVars, auditVars, thePatient, callStore, touchStore, tieOrder, proc, calls>>

\* the rows of the patient's clinic dated inside the invoice's window
NearCalls ==
  {c \in DOMAIN AttrCalls :
     /\ AttrCalls[c].clinic = PatientClinic
     /\ AttrCalls[c].timestamp \in (PaidAt - LookbackHours)..PaidAt}

NearTouches ==
  {t \in DOMAIN AttrTouches :
     /\ AttrTouches[t].clinic = PatientClinic
     /\ AttrTouches[t].timestamp \in (PaidAt - LookbackHours)..PaidAt}

\* the patient and the synchronised calls and touches, as the invoice finds them
InitRank ==
  /\ now = Now0
  /\ GenStart
  /\ thePatient \in [clinic : {PatientClinic}, phone : {"", "p1"}, email : {"", "e1"}]
  /\ callStore \in SmallSubsets(NearCalls)
  /\ touchStore \in SmallSubsets(NearTouches)
  /\ tieOrder \in {"asc", "desc"}
  /\ attributions = <<>>
  /\ lastOp = NoOp
  /\ proc = [q \in Procs |-> ProcIdle]
  /\ calls = [started |-> 0, done |-> 0, conflicts |-> 0, overrides |-> 0]
  /\ audit = NoAudit

NextRank == Tick \/ EvaluateAttribution

SpecRank == InitRank /\ [][NextRank]_vars

---------------------------------------------------------------------------
(* Properties of the generators *)

KeyCount(rows, key) == Cardinality({i \in 1..Len(rows) : rows[i].idempotency_key = key})

DistinctKeys(rows) ==
  \A i, j \in 1..Len(rows) : i # j => rows[i].idempotency_key # rows[j].idempotency_key

\* the windows of the last two completed runs of g have a common point: the
\* tolerance windows of review and follow-up when the runs are no further apart
\* than the width of the window, the calendar month of recall when both runs fall
\* in the same month, the 24-hour look-back of callback always
WindowsOverlap(g) ==
  CASE g = "review"    -> hist[g].from - hist[g].prevFrom <= 2 * ReviewToleranceHours
    [] g = "treatment" -> hist[g].from - hist[g].prevFrom <= 2 * FollowupToleranceHours
    [] g = "recall"    -> MonthOf(hist[g].prevFrom) = MonthOf(hist[g].to)
    [] OTHER           -> TRUE

\* the last two completed runs of g read the clock at the same hour throughout:
\* the same window (and, for recall, the same month)
SameWindow(g) == hist[g].n >= 2 /\ hist[g].prevFrom = hist[g].to

\* C1 as stated: run one after the other on unchanged event data, the second run
\* of a generator, over the same window or over one that overlaps the first,
\* creates zero additional action records.
C1_SecondRunCreatesNothing ==
  \A g \in Generators :
    (hist[g].n >= 2 /\ WindowsOverlap(g))
      => hist[g].created = 0

\* C1 as amended: run one after the other on unchanged event data, the second run
\* of a generator over the same window creates zero additional action records;
\* over any window no two Task records and no two ReviewRequest records share
\* an idempotency key.
C1_RerunCreatesNoDuplicate ==
  /\ \A g \in Generators : SameWindow(g) => hist[g].created = 0
  /\ DistinctKeys(tasks)
  /\ DistinctKeys(reviews)

\* a generator has run twice over the same window: the first run created records,
\* the second none
C1_Witness ==
  \E g \in Generators :
    SameWindow(g) /\ hist[g].prevCreated > 0 /\ hist[g].created = 0

\* C2: under every interleaving of concurrent generator runs (existence check and
\* insert being separate steps) the store never holds two Task records, nor two
\* ReviewRequest records, with the same idempotency key.
C2_NoTwoRecordsShareKey == DistinctKeys(tasks) /\ DistinctKeys(reviews)

\* two runs passed the existence check for one key; one inserted, the insert of
\* the other was rejected, and the store holds the key once
C2_Witness ==
  \E w \in Workers :
    /\ run[w].pc = "crashed"
    /\ KeyCount(IF UsesReviews(run[w].gen) THEN reviews ELSE tasks, run[w].key) = 1

\* C3: an insert rejected because a concurrent run inserted the same key first is
\* treated as success: the run raises no error (and so goes on with the remaining
\* triggers and returns its count).
C3_RejectedInsertIsNoError == \A w \in Workers : run[w].pc # "crashed"

\* a missed call as in C4: active clinic, shorter than 30 s, no appointment, not
\* processed before, its caller a patient of the clinic
QualifyingCall(c) ==
  /\ Clinics[CallEvents[c].clinic].is_active
  /\ CallEvents[c].duration_seconds < 30
  /\ ~CallEvents[c].resulted_in_appointment
  /\ ~InitProcessed[c]
  /\ \E p \in SyncedPatients :
       Patients[p].clinic = CallEvents[c].clinic /\ Patients[p].phone = CallEvents[c].caller_phone

\* C4: after one callback run, and after a second, a qualifying call of the last
\* 24 hours has exactly one Task: type callback, priority 2, key
\* callback_call_<call_sid>, referring back to the call; and the call is processed.
C4_OneCallbackTaskPerMissedCall ==
  \A c \in DOMAIN CallEvents :
    (/\ QualifyingCall(c)
     /\ hist["callback"].n >= 1
     /\ CallEvents[c].timestamp >= hist["callback"].to - 24)
    => /\ is_processed[c]
       /\ Cardinality({i \in 1..Len(tasks) :
                         tasks[i].source_type = "call_event" /\ tasks[i].source_id = c}) = 1
       /\ \E i \in 1..Len(tasks) :
            /\ tasks[i].idempotency_key = <<"callback_call", CallEvents[c].call_sid>>
            /\ tasks[i].task_type = "callback"
            /\ tasks[i].priority = 2
            /\ tasks[i].source_type = "call_event"
            /\ tasks[i].source_id = c
            /\ tasks[i].clinic = CallEvents[c].clinic
            /\ \A j \in 1..Len(tasks) :
                 tasks[j].idempotency_key = tasks[i].idempotency_key => j = i

\* the callback generator has run twice with call CA1 inside its window: the first
\* run created its Task, the second created nothing
C4_Witness ==
  /\ hist["callback"].n = 2
  /\ hist["callback"].prevCreated >= 1
  /\ hist["callback"].created = 0
  /\ QualifyingCall(1)
  /\ CallEvents[1].timestamp >= hist["callback"].to - 24
  /\ is_processed[1]
  /\ KeyCount(tasks, <<"callback_call", "CA1">>) = 1

---------------------------------------------------------------------------
(* Properties of the ranker, stated on the stored rows, not on the model's
   own candidate operators *)

InWindow(ts) == ts >= PaidAt - LookbackHours /\ ts <= PaidAt

\* set A of the specification: calls of the patient's clinic and phone in the window
SetA ==
  {c \in callStore :
     /\ thePatient.phone # ""
     /\ AttrCalls[c].clinic = thePatient.clinic
     /\ AttrCalls[c].caller_phone = thePatient.phone
     /\ InWindow(AttrCalls[c].timestamp)}

\* set B of the specification: touches of the patient's clinic and email in the window
SetB ==
  {t \in touchStore :
     /\ thePatient.email # ""
     /\ AttrTouches[t].clinic = thePatient.clinic
     /\ AttrTouches[t].email = thePatient.email
     /\ InWindow(AttrTouches[t].timestamp)}

CampaignCalls == {c \in SetA : AttrCalls[c].campaign_id # ""}

PaidMediumTouches == {t \in SetB : AttrTouches[t].utm_medium \in {"cpc", "ppc", "paid"}}

\* an evaluation has just written the patient's row
Evaluated == lastOp.op = "evaluate" /\ Len(attributions) >= 1

\* C5: whenever set A holds a call with a non-empty campaign_id, the evaluation
\* yields type call, source phone, medium call, and references a most recent
\* such call, whatever organic calls and whatever touches are also present.
C5_PaidCallWins ==
  (Evaluated /\ CampaignCalls # {}) =>
    /\ attributions[1].attribution_type = "call"
    /\ attributions[1].campaign_source = "phone"
    /\ attributions[1].campaign_medium = "call"
    /\ attributions[1].content_type = "callevent"
    /\ attributions[1].object_id \in CampaignCalls
    /\ \A c \in CampaignCalls :
         AttrCalls[attributions[1].object_id].timestamp >= AttrCalls[c].timestamp

\* a campaign call older than an organic call of the patient, and a paid touch
\* as well: the row references the campaign call
C5_Witness ==
  /\ Evaluated
  /\ CampaignCalls # {}
  /\ \E c \in SetA \ CampaignCalls :
       AttrCalls[c].timestamp > AttrCalls[attributions[1].object_id].timestamp
  /\ attributions[1].attribution_type = "call"
  /\ attributions[1].campaign_source = "phone"

\* C6: when no call of set A has a campaign_id and set B holds a touch of medium
\* cpc, ppc or paid, the evaluation yields type marketing_touch, references a most
\* recent such touch and takes source and medium from that touch's UTM fields,
\* even when organic calls (more recent ones included) are present.
C6_PaidTouchBeatsOrganicCall ==
  (Evaluated /\ CampaignCalls = {} /\ PaidMediumTouches # {}) =>
    /\ attributions[1].attribution_type = "marketing_touch"
    /\ attributions[1].content_type = "marketingtouch"
    /\ attributions[1].object_id \in PaidMediumTouches
    /\ \A t \in PaidMediumTouches :
         AttrTouches[attributions[1].object_id].timestamp >= AttrTouches[t].timestamp
    /\ attributions[1].campaign_source = AttrTouches[attributions[1].object_id].utm_source
    /\ attributions[1].campaign_medium = AttrTouches[attributions[1].object_id].utm_medium

\* a paid touch and a more recent organic call: the row references the touch
C6_Witness ==
  /\ Evaluated
  /\ CampaignCalls = {}
  /\ PaidMediumTouches # {}
  /\ attributions[1].attribution_type = "marketing_touch"
  /\ \E c \in SetA :
       AttrCalls[c].timestamp > AttrTouches[attributions[1].object_id].timestamp

\* C7: for a patient with no phone and no email the evaluation completes and
\* yields type unknown with an empty source reference, even when the clinic has
\* calls with an empty caller phone or touches with an empty email in the window.
C7_NoContactIsUnknown ==
  (lastOp.op = "evaluate" /\ thePatient.phone = "" /\ thePatient.email = "") =>
    /\ Len(attributions) = 1
    /\ attributions[1].attribution_type = "unknown"
    /\ attributions[1].content_type = "none"
    /\ attributions[1].object_id = NoneId

\* the store holds a call without caller phone and a touch without email, both
\* of the patient's clinic and inside the window
C7_Witness ==
  /\ lastOp.op = "evaluate"
  /\ thePatient.phone = "" /\ thePatient.email = ""
  /\ \E c \in callStore :
       /\ AttrCalls[c].caller_phone = ""
       /\ AttrCalls[c].clinic = thePatient.clinic
       /\ InWindow(AttrCalls[c].timestamp)
  /\ \E t \in touchStore :
       /\ AttrTouches[t].email = ""
       /\ AttrTouches[t].clinic = thePatient.clinic
       /\ InWindow(AttrTouches[t].timestamp)
  /\ attributions[1].attribution_type = "unknown"

\* a row with the evaluation timestamp of its evidence blanked
SansEvaluatedAt(row) ==
  [row EXCEPT !.evidence_json = Put(row.evidence_json, "evaluated_at", "")]

---------------------------------------------------------------------------
(* override_attribution *)

\* number of overrides in one behaviour
MaxOverrides == 2

Reasons == {"wrong source", "patient said so"}

\* the objects a user may name as the new source: none, or a stored call or touch
Sources ==
  {NoSource} \cup {[kind |-> "callevent", id |-> c] : c \in callStore}
             \cup {[kind |-> "marketingtouch", id |-> t] : t \in touchStore}

\* str(attribution.attributed_source) if attribution.attributed_source else None:
\* the pieces of CallEvent.__str__ / MarketingTouch.__str__ (the row id stands
\* for the call_sid)
SourceStr(row) ==
  IF row.content_type = "callevent" /\ row.object_id \in callStore
    THEN <<"Call", ToString(row.object_id), AttrCalls[row.object_id].caller_phone>>
  ELSE IF row.content_type = "marketingtouch" /\ row.object_id \in touchStore
    THEN <<"Touch:", AttrTouches[row.object_id].utm_source,
           AttrTouches[row.object_id].utm_medium,
           ToString(AttrTouches[row.object_id].timestamp)>>
  ELSE <<"None">>

\* the previous_attribution entry built from the row as it is before the override
PreviousAttribution(row) ==
  [type |-> row.attribution_type, source |-> SourceStr(row), campaign |-> row.campaign_name]

\* old_evidence = evidence_json.copy(); old_evidence['previous_attribution'] = {...}
OverriddenEvidence(row) ==
  Put(row.evidence_json, "previous_attribution", PreviousAttribution(row))

\* the row after override_attribution(attribution, user, new_source, reason) at t
OverriddenRow(row, u, src, reason, t) ==
  [row EXCEPT
     !.content_type  = IF src = NoSource THEN @ ELSE src.kind,
     !.object_id     = IF src = NoSource THEN @ ELSE src.id,
     !.campaign_name = IF src.kind = "callevent" THEN AttrCalls[src.id].campaign_name ELSE @,
     !.status = "manual",
     !.overridden_by = u,
     !.override_reason = reason,
     !.overridden_at = t,
     !.evidence_json = OverriddenEvidence(row)]

\* OverrideAttribution on the patient's existing row, run alone
OverrideAttribution(u, src, reason) ==
  /\ RowsOf(attributions, PatientId) # {}
  /\ calls.overrides < MaxOverrides
  /\ attributions' = [attributions EXCEPT ![Min(RowsOf(attributions, PatientId))] =
                        OverriddenRow(@, u, src, reason, now)]
  /\ calls' = [calls EXCEPT !.overrides = @ + 1]
  /\ lastOp' = [op |-> "override", before |-> GetRow(attributions, PatientId), at |-> now,
                user |-> u, source |-> src, reason |-> reason]
  /\ UNCHANGED <<genVars, syncVars, auditVars, thePatient, callStore, touchStore, tieOrder, proc>>

\* a patient with phone and email, and a few stores
InitAttr ==
  /\ now = Now0
  /\ GenStart
  /\ thePatient = [clinic |-> PatientClinic, phone |-> "p1", email |-> "e1"]
  /\ callStore \in {{}, {3}, {2, 3}}
  /\ touchStore \in {{}, {5}, {2, 5}}
  /\ tieOrder = "asc"
  /\ attributions = <<>>
  /\ lastOp = NoOp
  /\ proc = [q \in Procs |-> ProcIdle]
  /\ calls = [started |-> 0, done |-> 0, conflicts |-> 0, overrides |-> 0]
  /\ audit = NoAudit

NextAttr ==
  \/ Tick
  \/ EvaluateAttribution
  \/ \E u \in Users, src \in Sources, reason \in Reasons : OverrideAttribution(u, src, reason)

SpecAttr == InitAttr /\ [][NextAttr]_vars

\* C10: an override of an existing Attribution writes the type, source and
\* campaign name the row had before into the previous_attribution entry of the
\* evidence, keeps every evidence entry that was present before, sets status to
\* manual and records the acting user, the reason and the override timestamp.
C10_OverrideKeepsEvidence ==
  (lastOp.op = "override") =>
    /\ "previous_attribution" \in DOMAIN attributions[1].evidence_json
    /\ attributions[1].evidence_json["previous_attribution"]
         = [type |-> lastOp.before.attribution_type,
            source |-> SourceStr(lastOp.before),
            campaign |-> lastOp.before.campaign_name]
    /\ \A k \in DOMAIN lastOp.before.evidence_json :
         /\ k \in DOMAIN attributions[1].evidence_json
         /\ attributions[1].evidence_json[k] = lastOp.before.evidence_json[k]
    /\ attributions[1].status = "manual"
    /\ attributions[1].overridden_by = lastOp.user
    /\ attributions[1].override_reason = lastOp.reason
    /\ attributions[1].overridden_at = lastOp.at

---------------------------------------------------------------------------
(* Concurrent create_attribution calls for one patient: update_or_create step
   by step.  It runs in one transaction: get() under select_for_update; on
   DoesNotExist an INSERT, which the one-to-one constraint on patient rejects
   when a row is there (IntegrityError, then get() again); then the defaults
   are set on the row and saved, and the row lock is released at commit. *)

\* number of create_attribution calls started in one behaviour
MaxEvals == 3

\* the mutant of PatientTaken: patient as a plain foreign key
PatientTakenDropped(rows, pid) == FALSE

\* OneToOneField: an INSERT for a patient who has a row is rejected
PatientTaken(rows, pid) == RowsOf(rows, pid) # {}

\* the row of the patient is locked by another call (select_for_update)
RowLocked(q) == \E r \in Procs \ {q} : proc[r].pc = "update"

\* lines 25-117: the call reads the clock, the calls and the touches
EvalBegin(q) ==
  /\ proc[q].pc = "idle"
  /\ calls.started < MaxEvals
  /\ proc' = [proc EXCEPT ![q] = [pc |-> "get",
                                  defaults |-> Defaults(thePatient, Invoice, now)]]
  /\ calls' = [calls EXCEPT !.started = @ + 1]
  /\ UNCHANGED <<genVars, syncVars, auditVars, thePatient, callStore, touchStore, tieOrder, attributions, lastOp>>

\* select_for_update().get(patient=patient): the row, locked, or DoesNotExist
UocGet(q) ==
  /\ proc[q].pc = "get"
  /\ IF RowsOf(attributions, PatientId) = {}
       THEN proc' = [proc EXCEPT ![q].pc = "insert"]
       ELSE /\ ~RowLocked(q)
            /\ proc' = [proc EXCEPT ![q].pc = "update"]
  /\ UNCHANGED <<genVars, syncVars, auditVars, thePatient, callStore, touchStore, tieOrder, attributions,
                 lastOp, calls>>

\* create(patient=patient, **defaults) succeeds: created, the call returns
UocInsert(q) ==
  /\ proc[q].pc = "insert"
  /\ ~PatientTaken(attributions, PatientId)
  /\ attributions' = Append(attributions, CreatedRow(PatientId, proc[q].defaults))
  /\ proc' = [proc EXCEPT ![q] = ProcIdle]
  /\ calls' = [calls EXCEPT !.done = @ + 1]
  /\ lastOp' = [op |-> "evaluate", before |-> NoRow, at |-> now,
                user |-> "", source |-> NoSource, reason |-> ""]
  /\ UNCHANGED <<genVars, syncVars, auditVars, thePatient, callStore, touchStore, tieOrder>>

\* create() raises IntegrityError: get_or_create catches it and reads again
UocConflict(q) ==
  /\ proc[q].pc = "insert"
  /\ PatientTaken(attributions, PatientId)
  /\ proc' = [proc EXCEPT ![q].pc = "get"]
  /\ calls' = [calls EXCEPT !.conflicts = @ + 1]
  /\ UNCHANGED <<genVars, syncVars, auditVars, thePatient, callStore, touchStore, tieOrder, attributions, lastOp>>

\* setattr for each default, obj.save(), commit
UocUpdate(q) ==
  /\ proc[q].pc = "update"
  /\ attributions' = [attributions EXCEPT ![Min(RowsOf(attributions, PatientId))] =
                        UpdatedRow(@, proc[q].defaults)]
  /\ proc' = [proc EXCEPT ![q] = ProcIdle]
  /\ calls' = [calls EXCEPT !.done = @ + 1]
  /\ lastOp' = [op |-> "evaluate", before |-> GetRow(attributions, PatientId), at |-> now,
                user |-> "", source |-> NoSource, reason |-> ""]
  /\ UNCHANGED <<genVars, syncVars, auditVars, thePatient, callStore, touchStore, tieOrder>>

NextUpsert ==
  \/ Tick
  \/ \E q \in Procs :
       \/ EvalBegin(q)
       \/ UocGet(q)
       \/ UocInsert(q)
       \/ UocConflict(q)
       \/ UocUpdate(q)

SpecUpsert == InitAttr /\ [][NextUpsert]_vars

\* C9: under every interleaving of concurrent evaluations for the same patient
\* no state holds two Attribution rows for that patient, and once all calls
\* have finished exactly one row exists.
C9_OneRowPerPatient ==
  /\ Cardinality(RowsOf(attributions, PatientId)) <= 1
  /\ (calls.done >= 1 /\ \A q \in Procs : proc[q].pc = "idle")
       => Cardinality(RowsOf(attributions, PatientId)) = 1

\* two calls both found no row; one insert was rejected, and both have finished
C9_Witness ==
  /\ calls.conflicts >= 1
  /\ calls.done >= 2
  /\ \A q \in Procs : proc[q].pc = "idle"
  /\ Cardinality(RowsOf(attributions, PatientId)) = 1

---------------------------------------------------------------------------
(* The history of decisions in the evidence *)

\* the evidence entries create_attribution writes (all of them strings)
ScalarEvidenceKeys ==
  {"invoice_id", "invoice_amount", "paid_at", "lookback_start", "evaluated_at",
   "call_events_found", "marketing_touches_found", "attribution_reason"}

\* the decisions an evidence object holds, under whatever key
RecordedDecisions(ev) == {ev[k] : k \in DOMAIN ev \ ScalarEvidenceKeys}

\* C11: after any sequence of overrides of one Attribution the evidence holds
\* the pre-override decision of every override of the sequence: an override
\* adds the decision it replaces and erases or replaces none recorded earlier.
C11_OverridesAppendHistory ==
  (lastOp.op = "override") =>
    /\ [type |-> lastOp.before.attribution_type,
        source |-> SourceStr(lastOp.before),
        campaign |-> lastOp.before.campaign_name]
         \in RecordedDecisions(attributions[1].evidence_json)
    /\ RecordedDecisions(lastOp.before.evidence_json)
         \subseteq RecordedDecisions(attributions[1].evidence_json)

---------------------------------------------------------------------------
(* override_attribution for a patient without Attribution: the caller's lookup
   found no row, so the attribution argument is None *)

\* the mutant of OverrideOfNone: the function saves a fresh manual row instead
OverrideOfNoneSaves(rows, u, src, reason, t) ==
  Append(rows, [CreatedRow(PatientId, Defaults(thePatient, Invoice, t))
                  EXCEPT !.status = "manual", !.overridden_by = u,
                         !.override_reason = reason, !.overridden_at = t])

\* the table after override_attribution(None, ...): attribution.evidence_json
\* raises AttributeError at the first statement, save() is never reached
OverrideOfNone(rows, u, src, reason, t) == rows

\* OverrideAttribution when the patient has no row: the error reaches the caller
OverrideMissing(u, src, reason) ==
  /\ GetRow(attributions, PatientId) = NoRow
  /\ attributions' = OverrideOfNone(attributions, u, src, reason, now)
  /\ lastOp' = [op |-> "override_error", before |-> NoRow, at |-> now,
                user |-> u, source |-> src, reason |-> reason]
  /\ UNCHANGED <<genVars, syncVars, auditVars, thePatient, callStore, touchStore, tieOrder, proc, calls>>

NextOverride ==
  \/ Tick
  \/ EvaluateAttribution
  \/ \E u \in Users, src \in Sources, reason \in Reasons : OverrideAttribution(u, src, reason)
  \/ \E u \in Users, src \in Sources, reason \in Reasons : OverrideMissing(u, src, reason)

SpecOverride == InitAttr /\ [][NextOverride]_vars

---------------------------------------------------------------------------
(* AuditLog: log_audit, and save() / delete() on a stored row *)

\* number of log_audit calls in one behaviour
MaxAudits == 2

\* request given or not: the provenance log_audit reads from it
Requests == {[given |-> FALSE, ip |-> "", agent |-> ""],
             [given |-> TRUE,  ip |-> "10.0.0.1", agent |-> "curl"]}

AuditActions == {"read", "update"}

\* the row log_audit creates for an access to the patient
AuditRow(u, action, changes, req, t) ==
  [user |-> u, clinic |-> thePatient.clinic, action |-> action,
   content_type |-> "patient", object_id |-> PatientId,
   object_repr |-> ToString(PatientId), changes_json |-> changes,
   ip_address |-> IF req.given THEN req.ip ELSE "",
   user_agent |-> IF req.given THEN req.agent ELSE "",
   timestamp |-> t]

\* the mutant of SaveRaises: save() without the guard
SaveRaisesNever(pk) == FALSE

\* AuditLog.save: if self.pk: raise ValueError
SaveRaises(pk) == pk # NoneId

\* the mutant of DeleteRaises: delete() inherited from Model
DeleteRaisesNever == FALSE

\* AuditLog.delete: raise ValueError
DeleteRaises == TRUE

\* RecordAudit: log_audit -> AuditLog.objects.create -> save() of a row without pk
RecordAudit(u, action, changes, req) ==
  /\ audit.n < MaxAudits
  /\ IF SaveRaises(NoneId)
       THEN audit' = [audit EXCEPT !.op = [kind |-> "record", error |-> "ValueError"],
                                   !.n = @ + 1]
       ELSE audit' = [rows |-> Append(audit.rows, AuditRow(u, action, changes, req, now)),
                      op |-> [kind |-> "record", error |-> ""],
                      n |-> audit.n + 1]
  /\ UNCHANGED <<genVars, syncVars, attrVars>>

\* row i is loaded, its action changed, save() called
UpdateAttempt(i, action) ==
  /\ i \in 1..Len(audit.rows)
  /\ IF SaveRaises(i)
       THEN audit' = [audit EXCEPT !.op = [kind |-> "update", error |-> "ValueError"]]
       ELSE audit' = [audit EXCEPT !.rows[i].action = action,
                                   !.op = [kind |-> "update", error |-> ""]]
  /\ UNCHANGED <<genVars, syncVars, attrVars>>

\* the rows without row i
Without(rows, i) == SubSeq(rows, 1, i - 1) \o SubSeq(rows, i + 1, Len(rows))

\* row i is loaded, delete() called
DeleteAttempt(i) ==
  /\ i \in 1..Len(audit.rows)
  /\ IF DeleteRaises
       THEN audit' = [audit EXCEPT !.op = [kind |-> "delete", error |-> "ValueError"]]
       ELSE audit' = [audit EXCEPT !.rows = Without(audit.rows, i),
                                   !.op = [kind |-> "delete", error |-> ""]]
  /\ UNCHANGED <<genVars, syncVars, attrVars>>

NextAudit ==
  \/ Tick
  \/ \E u \in Users \cup {""}, action \in AuditActions, changes \in {<<>>, <<"phone">>},
        req \in Requests : RecordAudit(u, action, changes, req)
  \/ \E i \in 1..MaxAudits, action \in AuditActions : UpdateAttempt(i, action)
  \/ \E i \in 1..MaxAudits : DeleteAttempt(i)

SpecAudit == InitGen /\ [][NextAudit]_vars

\* C13: for every existing AuditLog row an update attempt and a delete attempt
\* fail with an error and leave the row unchanged; over any sequence of
\* RecordAudit calls and attempts the rows only grow, by one per RecordAudit.
C13_AuditLogAppendOnly ==
  [][/\ Len(audit'.rows) = audit'.n
     /\ SubSeq(audit'.rows, 1, Len(audit.rows)) = audit.rows
     /\ (audit' # audit /\ audit'.op.kind \in {"update", "delete"})
          => (audit'.op.error = "ValueError" /\ audit'.rows = audit.rows)
     /\ audit'.n = audit.n + 1 => Len(audit'.rows) = Len(audit.rows) + 1]_vars

\* two rows recorded, then an update attempt on the first and later a delete
\* attempt have failed
C13_Witness ==
  /\ Len(audit.rows) = 2
  /\ audit.n = 2
  /\ audit.op = [kind |-> "delete", error |-> "ValueError"]
  /\ audit.rows[1].timestamp # audit.rows[2].timestamp

---------------------------------------------------------------------------
(* Failures and aborts inside a generator run *)

\* C14: a failure while handling one trigger (here: a create that raises) is
\* isolated to that trigger: the run goes on to every remaining trigger of the
\* window, so a run never ends on a failure with triggers or clinics left over.
C14_FailureIsIsolated ==
  \A w \in Workers :
    run[w].pc = "crashed" => (run[w].queue = {} /\ run[w].clinics = <<>>)

\* the scheduler kills the running task (time limit, worker restart): whatever
\* the run has committed stays, the rest of the batch is dropped
Abort(w) ==
  /\ run[w].pc \in {"loop", "patient", "create", "mark"}
  /\ run' = [run EXCEPT ![w] = Idle]
  /\ UNCHANGED <<now, tasks, reviews, is_processed, hist, runsStarted, attrVars, auditVars, syncVars>>

\* runs one at a time over unchanged data at one hour, any of them aborted
NextAbort ==
  \/ \E g \in Generators : StartRun(1, g)
  \/ ScanClinic(1)
  \/ CheckExists(1)
  \/ FindPatient(1)
  \/ CreateRecord(1)
  \/ MarkProcessed(1)
  \/ Finish(1)
  \/ Abort(1)

SpecAbort == InitGen /\ [][NextAbort]_vars

\* the triggers for which one uninterrupted run at the first hour creates a record
UninterruptedTriggers(g) ==
  CASE g = "callback" ->
         {c \in DOMAIN CallEvents :
            /\ Clinics[CallEvents[c].clinic].is_active
            /\ CallEvents[c].timestamp >= Now0 - CallbackWindowHours
            /\ CallEvents[c].duration_seconds < MissedCallSeconds
            /\ ~CallEvents[c].resulted_in_appointment
            /\ ~InitProcessed[c]
            /\ \E p \in SyncedPatients :
                 /\ Patients[p].clinic = CallEvents[c].clinic
                 /\ Patients[p].phone = CallEvents[c].caller_phone}
    [] g = "review" ->
         {a \in ReviewAppointments(Now0) :
            /\ HasConsent(a)
            /\ ~\E b \in ReviewAppointments(Now0) :
                  /\ HasConsent(b)
                  /\ Appointments[b].cliniko_id = Appointments[a].cliniko_id
                  /\ Appointments[b].scheduled_at > Appointments[a].scheduled_at}
    [] g = "treatment" -> FollowupPlans(Now0)
    [] OTHER -> RecallPatients(Now0)

\* the triggers a generator ranges over
TriggerIds(g) ==
  CASE g = "callback"  -> DOMAIN CallEvents
    [] g = "review"    -> DOMAIN Appointments
    [] g = "treatment" -> DOMAIN TreatmentPlans
    [] OTHER           -> DOMAIN Patients

\* the number of action records of generator g made for trigger x
RecordsFor(g, x) ==
  CASE g = "callback" ->
         Cardinality({i \in 1..Len(tasks) :
                        tasks[i].task_type = "callback" /\ tasks[i].source_id = x})
    [] g = "review" ->
         Cardinality({i \in 1..Len(reviews) : reviews[i].appointment = x})
    [] g = "treatment" ->
         Cardinality({i \in 1..Len(tasks) :
                        tasks[i].task_type = "treatment_followup" /\ tasks[i].source_id = x})
    [] OTHER ->
         Cardinality({i \in 1..Len(tasks) :
                        tasks[i].task_type = "recall" /\ tasks[i].patient = x})

\* C15: whatever runs were aborted before, and after whichever step, once a run
\* of a generator has completed over the same data the action records are
\* exactly those of one uninterrupted run: none missing, none duplicated.
C15_AbortedRunResumes ==
  \A g \in Generators :
    hist[g].n >= 1 =>
      \A x \in TriggerIds(g) :
        RecordsFor(g, x) = IF x \in UninterruptedTriggers(g) THEN 1 ELSE 0

\* a callback run was aborted between creating the task of CA1 and marking the
\* call processed; the next run completed
C15_Witness ==
  /\ hist["callback"].n = 1
  /\ run[1].pc = "idle"
  /\ ~is_processed[1]
  /\ RecordsFor("callback", 1) = 1
  /\ RecordsFor("callback", 3) = 1

---------------------------------------------------------------------------
(* Injectivity of the idempotency keys *)

\* the keys of the records generator g has made for trigger x
KeysHeldFor(g, x) ==
  CASE g = "callback" ->
         {tasks[i].idempotency_key : i \in {j \in 1..Len(tasks) :
            tasks[j].task_type = "callback" /\ tasks[j].source_id = x}}
    [] g = "review" ->
         {reviews[i].idempotency_key : i \in {j \in 1..Len(reviews) :
            reviews[j].appointment = x}}
    [] g = "treatment" ->
         {tasks[i].idempotency_key : i \in {j \in 1..Len(tasks) :
            tasks[j].task_type = "treatment_followup" /\ tasks[j].source_id = x}}
    [] OTHER ->
         {tasks[i].idempotency_key : i \in {j \in 1..Len(tasks) :
            tasks[j].task_type = "recall" /\ tasks[j].patient = x}}

\* C16: the key function of every generator is injective on trigger occurrences:
\* the key a record holds for one trigger is never the key of another trigger
\* of that generator, so no trigger is skipped because of another one's record.
C16_KeysAreInjective ==
  \A g \in Generators :
    \A x \in TriggerIds(g) : \A y \in TriggerIds(g) \ {x} :
      KeyOf(g, y, now) \notin KeysHeldFor(g, x)

---------------------------------------------------------------------------
(* The organic rules, the window and the evidence of the ranker *)

\* C17: with no campaign call in set A and no paid touch in set B: a non-empty
\* set A gives type call, source organic, medium call, referencing a most recent
\* call, even when a more recent organic touch exists; else a non-empty set B
\* gives type marketing_touch referencing a most recent touch, with source its
\* utm_source or organic and medium its utm_medium or web; else type unknown
\* with no source reference.
C17_OrganicPrecedence ==
  (Evaluated /\ CampaignCalls = {} /\ PaidMediumTouches = {}) =>
    IF SetA # {}
      THEN /\ attributions[1].attribution_type = "call"
           /\ attributions[1].campaign_source = "organic"
           /\ attributions[1].campaign_medium = "call"
           /\ attributions[1].content_type = "callevent"
           /\ attributions[1].object_id \in SetA
           /\ \A c \in SetA :
                AttrCalls[attributions[1].object_id].timestamp >= AttrCalls[c].timestamp
    ELSE IF SetB # {}
      THEN /\ attributions[1].attribution_type = "marketing_touch"
           /\ attributions[1].content_type = "marketingtouch"
           /\ attributions[1].object_id \in SetB
           /\ \A t \in SetB :
                AttrTouches[attributions[1].object_id].timestamp >= AttrTouches[t].timestamp
           /\ attributions[1].campaign_source =
                (IF AttrTouches[attributions[1].object_id].utm_source = "" THEN "organic"
                 ELSE AttrTouches[attributions[1].object_id].utm_source)
           /\ attributions[1].campaign_medium =
                (IF AttrTouches[attributions[1].object_id].utm_medium = "" THEN "web"
                 ELSE AttrTouches[attributions[1].object_id].utm_medium)
    ELSE /\ attributions[1].attribution_type = "unknown"
         /\ attributions[1].content_type = "none"
         /\ attributions[1].object_id = NoneId

\* an organic call and a more recent organic touch: the row references the call
C17_Witness ==
  /\ Evaluated
  /\ CampaignCalls = {} /\ PaidMediumTouches = {}
  /\ attributions[1].attribution_type = "call"
  /\ attributions[1].campaign_source = "organic"
  /\ \E t \in SetB :
       AttrTouches[t].timestamp > AttrCalls[attributions[1].object_id].timestamp

\* a patient with phone and email; the store may hold any of the rows, those of
\* another clinic, another phone or email, or just outside the window included
InitWindow ==
  /\ now = Now0
  /\ GenStart
  /\ thePatient = [clinic |-> PatientClinic, phone |-> "p1", email |-> "e1"]
  /\ callStore \in SmallSubsets(DOMAIN AttrCalls)
  /\ touchStore \in SmallSubsets(DOMAIN AttrTouches)
  /\ tieOrder \in {"asc", "desc"}
  /\ attributions = <<>>
  /\ lastOp = NoOp
  /\ proc = [q \in Procs |-> ProcIdle]
  /\ calls = [started |-> 0, done |-> 0, conflicts |-> 0, overrides |-> 0]
  /\ audit = NoAudit

SpecWindow == InitWindow /\ [][NextRank]_vars

\* C18: the source chosen by an evaluation is a call or touch of the patient's
\* own clinic, matching the patient's phone or email, dated in the closed
\* interval [paid_at - 30 days, paid_at]; an event just outside either bound, of
\* another clinic or with another phone or email never wins and is not counted
\* as a candidate.
C18_SourceInsideWindow ==
  Evaluated =>
    /\ attributions[1].content_type = "callevent" => attributions[1].object_id \in SetA
    /\ attributions[1].content_type = "marketingtouch" => attributions[1].object_id \in SetB
    /\ attributions[1].content_type = "none" => (SetA = {} /\ SetB = {})
    /\ attributions[1].evidence_json["call_events_found"] = ToString(Cardinality(SetA))
    /\ attributions[1].evidence_json["marketing_touches_found"] = ToString(Cardinality(SetB))

\* the store holds a campaign call of the patient one hour outside the window and
\* a paid touch of another clinic; the row references an organic call on the
\* window's first hour
C18_Witness ==
  /\ Evaluated
  /\ \E c \in callStore :
       /\ AttrCalls[c].caller_phone = thePatient.phone
       /\ AttrCalls[c].clinic = thePatient.clinic
       /\ AttrCalls[c].campaign_id # ""
       /\ ~InWindow(AttrCalls[c].timestamp)
  /\ \E t \in touchStore :
       /\ AttrTouches[t].email = thePatient.email
       /\ AttrTouches[t].clinic # thePatient.clinic
       /\ AttrTouches[t].utm_medium = "cpc"
  /\ attributions[1].attribution_type = "call"
  /\ attributions[1].campaign_source = "organic"
  /\ AttrCalls[attributions[1].object_id].timestamp = PaidAt - LookbackHours

\* C19: after every evaluation, whichever rule fired (the unknown branch and
\* patients without a phone included), the evidence holds the invoice id, amount
\* and paid timestamp, the lookback boundary, the evaluation timestamp, the
\* count of call candidates, the count of touch candidates and a reason string
\* identifying the rule that fired.
C19_EvidenceIsComplete ==
  Evaluated =>
    /\ {"invoice_id", "invoice_amount", "paid_at", "lookback_start", "evaluated_at",
        "call_events_found", "marketing_touches_found", "attribution_reason"}
         \subseteq DOMAIN attributions[1].evidence_json
    /\ attributions[1].evidence_json["attribution_reason"] # ""

---------------------------------------------------------------------------
(* The review-request generator *)

\* C20: every ReviewRequest is for a completed appointment of an active clinic
\* whose patient has sms or email consent, with channel sms when the patient has
\* sms consent and email otherwise; an appointment whose patient has neither
\* consent never gets a ReviewRequest.
C20_ReviewNeedsConsent ==
  \A i \in 1..Len(reviews) :
    LET a == reviews[i].appointment
        p == Appointments[a].patient
    IN /\ Appointments[a].status = "completed"
       /\ Clinics[Appointments[a].clinic].is_active
       /\ reviews[i].patient = p
       /\ reviews[i].clinic = Appointments[a].clinic
       /\ Patients[p].sms_consent \/ Patients[p].email_consent
       /\ reviews[i].channel = (IF Patients[p].sms_consent THEN "sms" ELSE "email")

\* a completed run whose window held appointments of a patient with sms consent
\* only, with email consent only, with both and with none, and one of an
\* inactive clinic
C20_Witness ==
  /\ hist["review"].n >= 1
  /\ \E i \in 1..Len(reviews) : reviews[i].appointment = 2 /\ reviews[i].channel = "email"
  /\ \E i \in 1..Len(reviews) : reviews[i].appointment = 6 /\ reviews[i].channel = "sms"
  /\ \E i \in 1..Len(reviews) : reviews[i].appointment = 8 /\ reviews[i].channel = "sms"
  /\ {4, 7} \subseteq {a \in DOMAIN Appointments :
                         /\ Appointments[a].status = "completed"
                         /\ Appointments[a].scheduled_at >= hist["review"].from - 25
                         /\ Appointments[a].scheduled_at <= hist["review"].from - 23}

---------------------------------------------------------------------------
(* The generators under the beat schedule: runs one after the other, the
   clock advancing hour by hour, a run possibly late but never later than the
   width of its generator's tolerance window after the run before *)

\* number of hours the clock advances under the beat
MaxHours == 3

\* the generators with a tolerance window, both on the beat schedule
Beat == {"review", "treatment"}

\* the width of the tolerance window: window_end - window_start
WindowWidth(g) ==
  IF g = "review" THEN 2 * ReviewToleranceHours ELSE 2 * FollowupToleranceHours

\* the start of the last completed run of g (the beat is started at Now0 with
\* every entry due)
LastStart(g) == IF hist[g].n = 0 THEN Now0 - WindowWidth(g) ELSE hist[g].from

\* the clock advances by one hour; no generator is left without a run for
\* longer than the width of its window
Hour ==
  /\ now < Now0 + MaxHours
  /\ run[1].pc = "idle"
  /\ \A g \in Beat : (now + 1) - LastStart(g) <= WindowWidth(g)
  /\ now' = now + 1
  /\ UNCHANGED <<tasks, reviews, is_processed, run, hist, runsStarted, attrVars, auditVars, syncVars>>

\* the beat sends a generator's task (at most once an hour): the task reads the
\* clock and evaluates its query
BeatRun(g) ==
  /\ run[1].pc = "idle"
  /\ LastStart(g) < now
  /\ run' = [run EXCEPT ![1] =
       [Idle EXCEPT !.pc = "loop", !.gen = g, !.from = now, !.queue = Triggers(g, now)]]
  /\ UNCHANGED <<now, tasks, reviews, is_processed, hist, runsStarted, attrVars, auditVars, syncVars>>

NextSched ==
  \/ Hour
  \/ \E g \in Beat : BeatRun(g)
  \/ CheckExists(1)
  \/ CreateRecord(1)
  \/ Finish(1)

\* the beat keeps sending and a started task runs to its end
SpecSched == InitGen /\ [][NextSched]_vars /\ WF_vars(NextSched)

\* the number of ReviewRequests of appointment a / of follow-up Tasks of plan p
ReviewsOf(a) == Cardinality({i \in 1..Len(reviews) : reviews[i].appointment = a})

FollowupsOf(p) ==
  Cardinality({i \in 1..Len(tasks) :
                 tasks[i].task_type = "treatment_followup" /\ tasks[i].source_id = p})

\* the appointments of the claim whose window (scheduled_at + 23 .. + 25 hours)
\* ends while the beat is observed
DueAppointments ==
  {a \in DOMAIN Appointments :
     /\ Appointments[a].status = "completed"
     /\ Clinics[Appointments[a].clinic].is_active
     /\ Patients[Appointments[a].patient].sms_consent
          \/ Patients[Appointments[a].patient].email_consent
     /\ Appointments[a].scheduled_at + 25 \in Now0..(Now0 + MaxHours)}

\* the plans of the claim whose window (sent_at + 156 .. + 180 hours) holds the
\* hour the beat is started
DuePlans ==
  {p \in DOMAIN TreatmentPlans :
     /\ TreatmentPlans[p].status = "sent"
     /\ Clinics[TreatmentPlans[p].clinic].is_active
     /\ Now0 \in (TreatmentPlans[p].sent_at + 156)..(TreatmentPlans[p].sent_at + 180)}

\* C21: with a review run in every 2-hour interval and a follow-up run in every
\* 24-hour interval, every completed appointment of an active clinic whose
\* patient has consent eventually has exactly one ReviewRequest and every plan
\* in status sent eventually has exactly one follow-up Task, and none ever has
\* two; no appointment is missed: when its window has passed it has its
\* ReviewRequest.
C21_EveryTriggerFiresOnce ==
  /\ [](\A a \in DOMAIN Appointments : ReviewsOf(a) <= 1)
  /\ [](\A p \in DOMAIN TreatmentPlans : FollowupsOf(p) <= 1)
  /\ [](\A a \in DueAppointments :
          now > Appointments[a].scheduled_at + 25 => ReviewsOf(a) = 1)
  /\ \A a \in DueAppointments : <>(ReviewsOf(a) = 1)
  /\ \A p \in DuePlans : <>(FollowupsOf(p) = 1)

---------------------------------------------------------------------------
(* The treatment follow-up generator *)

\* the follow-up Tasks of a table
FollowupRows(rows) == {i \in 1..Len(rows) : rows[i].task_type = "treatment_followup"}

\* C22: every follow-up Task (type treatment_followup, priority 3, key
\* treatment_followup_<plan id>, referring back to the plan) is for a plan of an
\* active clinic in status sent, and at the moment it is created its plan's
\* sent_at lies within 12 hours of (now - 7 days), now being the time of the run
\* that creates it; a draft, viewed, accepted, declined or expired plan has none.
C22_FollowupOnlyForSentPlans ==
  [][/\ \A i \in FollowupRows(tasks') :
          LET p == tasks'[i].source_id
          IN /\ tasks'[i].source_type = "treatment_plan"
             /\ p \in DOMAIN TreatmentPlans
             /\ tasks'[i].priority = 3
             /\ tasks'[i].idempotency_key = <<"treatment_followup", ToString(p)>>
             /\ tasks'[i].clinic = TreatmentPlans[p].clinic
             /\ tasks'[i].patient = TreatmentPlans[p].patient
             /\ TreatmentPlans[p].status = "sent"
             /\ Clinics[TreatmentPlans[p].clinic].is_active
     /\ \A i \in FollowupRows(tasks') \ FollowupRows(tasks) :
          \E w \in Workers :
            /\ run[w].gen = "treatment"
            /\ run[w].cur = tasks'[i].source_id
            /\ TreatmentPlans[tasks'[i].source_id].sent_at >= (run[w].from - 168) - 12
            /\ TreatmentPlans[tasks'[i].source_id].sent_at <= (run[w].from - 168) + 12]_vars

\* two completed runs an hour apart: plan 1 (sent 168 hours before the first) and
\* plan 3 (sent 156 hours before the second) have their Task; the draft, viewed,
\* accepted, declined and expired plans inside the window, the plan of the
\* inactive clinic and the plan sent 181 hours before have none
C22_Witness ==
  /\ hist["treatment"].n = 2
  /\ FollowupsOf(1) = 1
  /\ FollowupsOf(3) = 1
  /\ \A p \in {2, 4, 5, 6, 7, 8, 9} : FollowupsOf(p) = 0
  /\ {TreatmentPlans[p].status : p \in {2, 5, 6, 7, 8}}
       = {"viewed", "draft", "accepted", "declined", "expired"}

---------------------------------------------------------------------------
(* The recall generator *)

\* the recall Tasks of a table
RecallRows(rows) == {i \in 1..Len(rows) : rows[i].task_type = "recall"}

\* the recall Tasks of patient p keyed for the month numbered m
RecallsOf(p, m) ==
  {i \in RecallRows(tasks) :
     tasks[i].patient = p
       /\ tasks[i].idempotency_key = <<"recall", ToString(p), ToString(m)>>}

\* the day 180 days before hour t, and the month of hour t (months of 30 days)
DayBefore180(t) == (t - 180 * 24) \div 24

MonthNo(t) == t \div (30 * 24)

\* C23: a patient has at most one recall Task per calendar month, keyed
\* recall_<patient id>_<year-month>; after a completed run inside one month every
\* patient of an active clinic whose last appointment was older than 180 days
\* when the run started has exactly one Task keyed for that month (a repeated run
\* adds none, the first run of a later month adds one); and a recall Task is
\* only ever created for a patient of an active clinic whose last appointment is
\* older than 180 days at the run.
C23_RecallOncePerMonth ==
  /\ [](\A i \in RecallRows(tasks) :
          /\ tasks[i].priority = 4
          /\ \E m \in MonthNo(Now0)..MonthNo(now) : i \in RecallsOf(tasks[i].patient, m)
          /\ \A j \in RecallRows(tasks) :
               tasks[j].idempotency_key = tasks[i].idempotency_key => j = i)
  /\ []((hist["recall"].n >= 1 /\ MonthNo(hist["recall"].from) = MonthNo(hist["recall"].to))
          => \A p \in DOMAIN Patients :
               (Clinics[Patients[p].clinic].is_active
                  /\ Patients[p].last_appointment_date < DayBefore180(hist["recall"].from))
               => Cardinality(RecallsOf(p, MonthNo(hist["recall"].from))) = 1)
  /\ [][\A i \in RecallRows(tasks') \ RecallRows(tasks) :
          /\ Clinics[Patients[tasks'[i].patient].clinic].is_active
          /\ \E w \in Workers :
               /\ run[w].gen = "recall"
               /\ run[w].cur = tasks'[i].patient
               /\ Patients[tasks'[i].patient].last_appointment_date
                    < DayBefore180(run[w].from)]_vars

\* a completed run in one month and a completed run in the next: patient 1 has one
\* Task for each month; patient 2, whose last appointment was exactly 180 days
\* old at the first run, has one for the second month only
C23_Witness ==
  /\ hist["recall"].n = 2
  /\ MonthNo(hist["recall"].prevFrom) < MonthNo(hist["recall"].from)
  /\ MonthNo(hist["recall"].from) = MonthNo(hist["recall"].to)
  /\ Cardinality(RecallsOf(1, MonthNo(hist["recall"].prevFrom))) = 1
  /\ Cardinality(RecallsOf(1, MonthNo(hist["recall"].from))) = 1
  /\ Patients[2].last_appointment_date = DayBefore180(hist["recall"].prevFrom)
  /\ RecallsOf(2, MonthNo(hist["recall"].prevFrom)) = {}
  /\ Cardinality(RecallsOf(2, MonthNo(hist["recall"].from))) = 1
  /\ \A p \in {3, 4, 5} : \A i \in RecallRows(tasks) : tasks[i].patient # p

---------------------------------------------------------------------------
(* The callback generator while the Cliniko sync creates patients *)

\* sync_cliniko_for_clinic: update_or_create of a patient the store does not
\* hold yet (created_at = now)
SyncPatient(p) ==
  /\ p \in DOMAIN Patients \ DOMAIN patientStore
  /\ patientStore' = [q \in DOMAIN patientStore \cup {p} |->
                        IF q = p THEN now ELSE patientStore[q]]
  /\ UNCHANGED <<genVars, attrVars, auditVars, liveCalls>>

\* generator runs one at a time, the sync creating patients in between
NextResolve ==
  \/ Tick
  \/ \E g \in Generators : StartRun(1, g)
  \/ ScanClinic(1)
  \/ CheckExists(1)
  \/ FindPatient(1)
  \/ CreateRecord(1)
  \/ MarkProcessed(1)
  \/ Finish(1)
  \/ \E p \in DOMAIN Patients : SyncPatient(p)

SpecResolve == InitGen /\ [][NextResolve]_vars

\* the patients in the store with the clinic and the caller phone of call c
ResolvedBy(c) ==
  {p \in DOMAIN patientStore :
     Patients[p].clinic = CallEvents[c].clinic
       /\ Patients[p].phone = CallEvents[c].caller_phone}

\* the callback Tasks made for call c
CallbacksOf(c) ==
  {i \in 1..Len(tasks) : tasks[i].task_type = "callback" /\ tasks[i].source_id = c}

\* C24: a missed call whose caller phone matches no patient of its clinic has no
\* Task and keeps is_processed as it was; the run goes on with the other calls;
\* and once a matching patient is in the store, a completed run with the call
\* still inside its 24-hour window leaves the call with exactly one Task, for
\* that patient, and processed.
C24_UnresolvedCallIsSkipped ==
  \A c \in DOMAIN CallEvents :
    /\ ResolvedBy(c) = {} => (CallbacksOf(c) = {} /\ is_processed[c] = InitProcessed[c])
    /\ (/\ hist["callback"].n >= 1
        /\ Clinics[CallEvents[c].clinic].is_active
        /\ CallEvents[c].duration_seconds < 30
        /\ ~CallEvents[c].resulted_in_appointment
        /\ ~InitProcessed[c]
        /\ CallEvents[c].timestamp >= hist["callback"].to - 24
        /\ \E p \in ResolvedBy(c) : patientStore[p] < hist["callback"].from)
       => /\ Cardinality(CallbacksOf(c)) = 1
          /\ \A i \in CallbacksOf(c) : tasks[i].patient \in ResolvedBy(c)
          /\ is_processed[c]

\* the first run skipped CA2 (no patient with its caller phone) and created the
\* Tasks of the calls after it; the patient was synced, and the run of the next
\* hour created the Task of CA2 and nothing else
C24_Witness ==
  /\ hist["callback"].n = 2
  /\ hist["callback"].prevCreated >= 2
  /\ hist["callback"].created = 1
  /\ 6 \in DOMAIN patientStore
  /\ patientStore[6] >= hist["callback"].prevFrom
  /\ patientStore[6] < hist["callback"].from
  /\ Cardinality(CallbacksOf(2)) = 1
  /\ tasks[Len(tasks)].source_id = 2
  /\ tasks[Len(tasks)].patient = 6
  /\ is_processed[2]

---------------------------------------------------------------------------
(* The audit trail of the attribution operations *)

\* C25: after every successful EvaluateAttribution and OverrideAttribution the
\* last AuditLog row records that mutation: its target is the patient's
\* Attribution, its clinic the patient's, its action create or update, its
\* actor the overriding user (none for an evaluation), written at that time.
C25_MutationsAreAudited ==
  (lastOp.op \in {"evaluate", "override"}) =>
    /\ Len(audit.rows) >= 1
    /\ LET r == audit.rows[Len(audit.rows)]
       IN /\ r.content_type = "attribution"
          /\ r.object_id = PatientId
          /\ r.clinic = thePatient.clinic
          /\ r.action \in {"create", "update"}
          /\ r.user = lastOp.user
          /\ r.timestamp = lastOp.at

\* C26: over any sequence of evaluations and overrides of one patient the
\* evidence loses no recorded history: a previous_attribution entry an override
\* has recorded is still in the evidence after every later step.
C26_HistorySurvives ==
  [][\A i \in 1..Len(attributions) :
       "previous_attribution" \in DOMAIN attributions[i].evidence_json
         => /\ i <= Len(attributions')
            /\ attributions[i].evidence_json["previous_attribution"]
                 \in RecordedDecisions(attributions'[i].evidence_json)]_vars

---------------------------------------------------------------------------
(* override_attribution next to a concurrent create_attribution: the caller
   loads the Attribution, the function changes the loaded object and saves all
   of its fields *)

\* the caller's Attribution.objects.get(...): the row as it is now
OverrideLoad(q, u, src, reason) ==
  /\ proc[q].pc = "idle"
  /\ RowsOf(attributions, PatientId) # {}
  /\ calls.overrides < MaxOverrides
  /\ proc' = [proc EXCEPT ![q] = [pc |-> "override", row |-> GetRow(attributions, PatientId),
                                  user |-> u, source |-> src, reason |-> reason]]
  /\ calls' = [calls EXCEPT !.overrides = @ + 1]
  /\ UNCHANGED <<genVars, syncVars, auditVars, thePatient, callStore, touchStore, tieOrder,
                 attributions, lastOp>>

\* override_attribution on the loaded object; attribution.save() writes every
\* field of the object over the stored row
OverrideSave(q) ==
  /\ proc[q].pc = "override"
  /\ attributions' = [attributions EXCEPT ![Min(RowsOf(attributions, PatientId))] =
                        OverriddenRow(proc[q].row, proc[q].user, proc[q].source,
                                      proc[q].reason, now)]
  /\ lastOp' = [op |-> "override", before |-> GetRow(attributions, PatientId), at |-> now,
                user |-> proc[q].user, source |-> proc[q].source, reason |-> proc[q].reason]
  /\ proc' = [proc EXCEPT ![q] = ProcIdle]
  /\ UNCHANGED <<genVars, syncVars, auditVars, thePatient, callStore, touchStore, tieOrder, calls>>

NextRace ==
  \/ Tick
  \/ EvaluateAttribution
  \/ \E q \in Procs, u \in Users, src \in Sources, reason \in Reasons :
       OverrideLoad(q, u, src, reason)
  \/ \E q \in Procs : OverrideSave(q)

SpecRace == InitAttr /\ [][NextRace]_vars

\* the override of row r by user u at time t as the serial order evaluation,
\* then override leaves it
AfterEvaluateThenOverride(r, u, src, reason, t) ==
  [r EXCEPT
     !.content_type  = IF src.kind = "none" THEN @ ELSE src.kind,
     !.object_id     = IF src.kind = "none" THEN @ ELSE src.id,
     !.campaign_name = IF src.kind = "callevent" THEN AttrCalls[src.id].campaign_name ELSE @,
     !.status = "manual", !.overridden_by = u, !.override_reason = reason,
     !.overridden_at = t,
     !.evidence_json =
        [k \in DOMAIN r.evidence_json \cup {"previous_attribution"} |->
           IF k = "previous_attribution"
             THEN [type |-> r.attribution_type, source |-> SourceStr(r),
                   campaign |-> r.campaign_name]
             ELSE r.evidence_json[k]]]

\* the same as the serial order override, then evaluation leaves it: the
\* evaluation's fields as they are stored, the override's own fields set
AfterOverrideThenEvaluate(r, u, src, reason, t) ==
  [r EXCEPT !.status = "manual", !.overridden_by = u, !.override_reason = reason,
            !.overridden_at = t]

\* C27: when an override and an evaluation for one patient interleave, the
\* row the override's save leaves equals the outcome of one of the two serial
\* orders: what the evaluation wrote since the override read the row is not
\* reverted.
C27_OverrideIsSerializable ==
  [][\A q \in Procs :
       (proc[q].pc = "override" /\ proc'[q].pc = "idle")
         => GetRow(attributions', PatientId) \in
              {AfterEvaluateThenOverride(GetRow(attributions, PatientId), proc[q].user,
                                         proc[q].source, proc[q].reason, now),
               AfterOverrideThenEvaluate(GetRow(attributions, PatientId), proc[q].user,
                                         proc[q].source, proc[q].reason, now)}]_vars

---------------------------------------------------------------------------
(* The attribution type and the source reference *)

\* C28: after any sequence of evaluations and overrides the attribution type
\* and the source reference agree: type call has a CallEvent reference, type
\* marketing_touch a MarketingTouch reference, type unknown no reference.
C28_TypeMatchesReference ==
  \A i \in 1..Len(attributions) :
    /\ attributions[i].attribution_type = "call"
         => attributions[i].content_type = "callevent"
    /\ attributions[i].attribution_type = "marketing_touch"
         => attributions[i].content_type = "marketingtouch"
    /\ attributions[i].attribution_type = "unknown"
         => (attributions[i].content_type = "none" /\ attributions[i].object_id = NoneId)

---------------------------------------------------------------------------
(* The callback generator while Twilio reports the progress of a call *)

\* the status callbacks Twilio sends for a call that has not ended: still in
\* progress (CallDuration absent: 0), or completed with its duration
StatusCallbacks ==
  {[status |-> "in-progress", duration_seconds |-> 0],
   [status |-> "completed",   duration_seconds |-> 10],
   [status |-> "completed",   duration_seconds |-> 45]}

\* twilio_voice -> process_webhook for a call_sid the store holds:
\* update_or_create overwrites clinic (the first active clinic), status,
\* duration_seconds and timestamp (now); is_processed is left as it is
CallStatusWebhook(c, cb) ==
  /\ liveCalls[c].status \in {"ringing", "in-progress"}
  /\ liveCalls' = [liveCalls EXCEPT ![c] =
       [clinic |-> Head(ActiveClinics), status |-> cb.status,
        duration_seconds |-> cb.duration_seconds, timestamp |-> now]]
  /\ UNCHANGED <<genVars, attrVars, auditVars, patientStore>>

\* generator runs one at a time, webhook requests coming in between their steps
NextWebhook ==
  \/ Tick
  \/ \E g \in Generators : StartRun(1, g)
  \/ ScanClinic(1)
  \/ CheckExists(1)
  \/ FindPatient(1)
  \/ CreateRecord(1)
  \/ MarkProcessed(1)
  \/ Finish(1)
  \/ \E c \in DOMAIN CallEvents, cb \in StatusCallbacks : CallStatusWebhook(c, cb)

SpecWebhook == InitGen /\ [][NextWebhook]_vars

\* C29: under any interleaving of call-status webhook updates with callback
\* runs, every callback Task refers to a call that is missed: shorter than 30
\* seconds and without a resulting appointment.
C29_CallbackOnlyForMissedCalls ==
  \A i \in 1..Len(tasks) :
    tasks[i].task_type = "callback" =>
      /\ liveCalls[tasks[i].source_id].duration_seconds < 30
      /\ ~CallEvents[tasks[i].source_id].resulted_in_appointment

---------------------------------------------------------------------------
(* The completion marker of the callback generator *)

\* C30: when a callback run completes, every CallEvent inside its scan window
\* that has a callback Task is processed, a call whose Task was created by an
\* earlier run aborted before it marked the call included.
C30_CallsWithTaskAreProcessed ==
  [][hist'["callback"].n > hist["callback"].n
       => \A c \in DOMAIN CallEvents :
            (/\ liveCalls[c].timestamp >= hist'["callback"].from - 24
             /\ \E i \in 1..Len(tasks) :
                  tasks[i].task_type = "callback" /\ tasks[i].source_id = c)
            => is_processed'[c]]_vars

====
